---------------------------- MODULE Spec2Model ----------------------------
(***************************************************************************)
(* Model of trezor_agent/trezor/client.py: the identity label grammar and  *)
(* canonicalizer, the derivation of the hardened address path, the parser  *)
(* of the SSH challenge blob, and Client.sign_ssh_challenge.               *)
(*                                                                         *)
(* Text is a sequence of one-character strings, binary data a sequence of  *)
(* integers in 0..255.  Python assert statements are modelled as executed  *)
(* (the interpreter's default mode).                                       *)
(***************************************************************************)
EXTENDS Integers, Sequences, FiniteSets, TLC

VARIABLES
    \* string_to_identity / identity_to_string (one label through the round trip)
    label, groups, ident, canon, ident2, ipc,
    \* _get_address, called on two inputs: the inputs, and per call the address
    \* string, its digest and the returned address_n
    din, daddr, ddigest, dpath,
    \* _parse_ssh_blob: the fields and reserved bytes a challenge was built from,
    \* what was done to it, the bytes handed to the parser, and the outcome
    bfields, bdamage, data, bres, bpc,
    \* Client.sign_ssh_challenge(label, blob): its arguments, where the call is,
    \* the identity and parsed challenge, the number of sign_identity requests
    \* made to the device, the device's result, the returned value and the
    \* exception raised
    slabel, sblob, spc, sident, smsg, devCalls, sresult, sret, serr

identityVars == <<label, groups, ident, canon, ident2, ipc>>
deriveVars == <<din, daddr, ddigest, dpath>>
blobVars == <<bfields, bdamage, data, bres, bpc>>
signVars == <<slabel, sblob, spc, sident, smsg, devCalls, sresult, sret, serr>>
vars ==
    <<label, groups, ident, canon, ident2, ipc, din, daddr, ddigest, dpath,
      bfields, bdamage, data, bres, bpc,
      slabel, sblob, spc, sident, smsg, devCalls, sresult, sret, serr>>

----------------------------------------------------------------------------
(* Bounds *)

MaxLabelLen == 5

\* the most bytes appended after a complete challenge
MaxTrailing == 2

\* how far the length of a device signature strays from SignatureLen
MaxSigSlack == 1

----------------------------------------------------------------------------
(* Characters *)

NL == "\n"

\* \w of the port group: the alphanumerics and the underscore
WordChars == {"a", "b", "2", "_"}

\* the characters labels are drawn from: a word character, a character that is
\* not a word character, the three separators and the newline
LabelAlphabet == {"a", ".", ":", "/", "@", NL}

Labels == UNION {[1..n -> LabelAlphabet] : n \in 0..MaxLabelLen}

Slice(s, from, to) == [i \in 1..(to - from + 1) |-> s[from + i - 1]]

\* Python's s[:n] and s[n:], which stop at the end of s
SliceTo(s, n) == Slice(s, 1, IF n <= Len(s) THEN n ELSE Len(s))
SliceFrom(s, n) == Slice(s, n + 1, Len(s))

\* '.' of the regular expression: any character but the newline
AllDot(s, from, to) == \A i \in from..to : s[i] # NL

AllWord(s, from, to) == \A i \in from..to : s[i] \in WordChars

\* '$': at the end of the string, or just before a newline that ends it
AtEnd(s, pos) == pos = Len(s) + 1 \/ (pos = Len(s) /\ s[pos] = NL)

Lit(s, pos, lit) ==
    /\ pos + Len(lit) - 1 <= Len(s)
    /\ \A i \in 1..Len(lit) : s[pos + i - 1] = lit[i]

\* An unsigned 32-bit value is held as its two 16-bit halves, <<high, low>>
\* (value = high * 65536 + low): TLC's integers are 32-bit signed.
U32(high, low) == <<high, low>>

IsU32(w) == Len(w) = 2 /\ w[1] \in 0..65535 /\ w[2] \in 0..65535

Unmatched == [m |-> FALSE, v |-> <<>>]
Matched(s, from, to) == [m |-> TRUE, v |-> Slice(s, from, to)]
NoMatch == [ok |-> FALSE]

----------------------------------------------------------------------------
(* _identity_regexp, matched as re.match does: each group tried in the     *)
(* pattern's order of preference, backtracking into the continuation.      *)

\* (?P<path>/.*)?$ from pos: '/.*' runs to the end of the string, or to the
\* newline that ends it
PathMatch(s, pos) ==
    LET end == IF Len(s) > 0 /\ s[Len(s)] = NL THEN Len(s) - 1 ELSE Len(s)
    IN  IF pos <= end /\ s[pos] = "/" /\ AllDot(s, pos + 1, end)
        THEN [ok |-> TRUE, path |-> Matched(s, pos, end)]
        ELSE IF AtEnd(s, pos)
             THEN [ok |-> TRUE, path |-> Unmatched]
             ELSE NoMatch

\* the first alternative if it matches, the second otherwise: the order in
\* which the matcher tries them
OrElse(first, second) == IF first.ok THEN first ELSE second

\* the match r of the rest of the pattern, with one more group recorded
WithGroup(name, group, r) == (name :> group) @@ r

\* the end of the longest run of word characters that starts after pos
RECURSIVE WordRunEnd(_, _)
WordRunEnd(s, pos) ==
    IF pos + 1 <= Len(s) /\ s[pos + 1] \in WordChars
    THEN WordRunEnd(s, pos + 1)
    ELSE pos

\* ':' at pos, '\w*' up to e, then the path: the longest e first
RECURSIVE PortTry(_, _, _)
PortTry(s, pos, e) ==
    IF e < pos
    THEN NoMatch
    ELSE OrElse(WithGroup("port", Matched(s, pos + 1, e), PathMatch(s, e + 1)),
                PortTry(s, pos, e - 1))

\* (?::(?P<port>\w*))?(?P<path>/.*)?$ from pos: with the port first, then
\* without it
PortMatch(s, pos) ==
    OrElse(IF pos <= Len(s) /\ s[pos] = ":"
               THEN PortTry(s, pos, WordRunEnd(s, pos))
               ELSE NoMatch,
           WithGroup("port", Unmatched, PathMatch(s, pos)))

\* (?P<host>.*?) from pos up to e, then the rest: the shortest e first
RECURSIVE HostTry(_, _, _)
HostTry(s, pos, e) ==
    IF e > Len(s) \/ ~AllDot(s, pos, e)
    THEN NoMatch
    ELSE OrElse(WithGroup("host", Matched(s, pos, e), PortMatch(s, e + 1)),
                HostTry(s, pos, e + 1))

HostMatch(s, pos) == HostTry(s, pos, pos - 1)

\* (?P<user>.*) from pos up to e, '@', then the rest: the longest e first
RECURSIVE UserTry(_, _, _)
UserTry(s, pos, e) ==
    IF e < pos - 1
    THEN NoMatch
    ELSE OrElse(IF AllDot(s, pos, e) /\ Lit(s, e + 1, <<"@">>)
                    THEN WithGroup("user", Matched(s, pos, e),
                                   HostMatch(s, e + 2))
                    ELSE NoMatch,
                UserTry(s, pos, e - 1))

\* (?:(?P<user>.*)@)? and what follows it, from pos: with the user first, then
\* without it
UserMatch(s, pos) ==
    OrElse(UserTry(s, pos, Len(s) - 1),
           WithGroup("user", Unmatched, HostMatch(s, pos)))

\* (?P<proto>.*) up to e, '://', then the rest: the longest e first
RECURSIVE ProtoTry(_, _)
ProtoTry(s, e) ==
    IF e < 0
    THEN NoMatch
    ELSE OrElse(IF AllDot(s, 1, e) /\ Lit(s, e + 1, <<":", "/", "/">>)
                    THEN WithGroup("proto", Matched(s, 1, e),
                                   UserMatch(s, e + 4))
                    ELSE NoMatch,
                ProtoTry(s, e - 1))

\* _identity_regexp.match(s): with the proto first, then without it
identity_regexp(s) ==
    OrElse(ProtoTry(s, Len(s) - 3),
           WithGroup("proto", Unmatched, UserMatch(s, 1)))

----------------------------------------------------------------------------
(* The identity record (factory.identity_type): a field that was never set *)
(* reads as the empty string.                                              *)

NoIdentity ==
    [proto |-> <<>>, user |-> <<>>, host |-> <<>>, port |-> <<>>, path |-> <<>>,
     index |-> U32(0, 0)]

\* kwargs = {k: v for k, v in result.items() if v}: a group that did not match
\* (None) and a group that matched nothing ('') are both left out
Kept(g) == IF g.m /\ g.v # <<>> THEN g.v ELSE <<>>

\* string_to_identity, given the match it made
string_to_identity(m) ==
    [proto |-> Kept(m.proto), user |-> Kept(m.user), host |-> Kept(m.host),
     port |-> Kept(m.port), path |-> Kept(m.path), index |-> U32(0, 0)]

\* the port appended without its ':'
identity_to_string_port_unseparated(identity) ==
    (IF identity.proto # <<>> THEN identity.proto \o <<":", "/", "/">> ELSE <<>>)
    \o (IF identity.user # <<>> THEN identity.user \o <<"@">> ELSE <<>>)
    \o identity.host
    \o identity.port
    \o (IF identity.path # <<>> THEN identity.path ELSE <<>>)

identity_to_string(identity) ==
    (IF identity.proto # <<>> THEN identity.proto \o <<":", "/", "/">> ELSE <<>>)
    \o (IF identity.user # <<>> THEN identity.user \o <<"@">> ELSE <<>>)
    \o identity.host
    \o (IF identity.port # <<>> THEN <<":">> \o identity.port ELSE <<>>)
    \o (IF identity.path # <<>> THEN identity.path ELSE <<>>)


----------------------------------------------------------------------------
(* Bytes *)

\* ord() of the characters the model uses (ASCII)
Ord(c) ==
    CASE c = NL  -> 10
      [] c = "." -> 46
      [] c = "/" -> 47
      [] c = "2" -> 50
      [] c = ":" -> 58
      [] c = "@" -> 64
      [] c = "_" -> 95
      [] c = "a" -> 97
      [] c = "b" -> 98
      [] c = "h" -> 104
      [] c = "p" -> 112
      [] c = "s" -> 115

\* str.encode('ascii')
encode_ascii(s) == [i \in 1..Len(s) |-> Ord(s[i])]

\* struct.pack('<L', n): four bytes, least significant first
pack_L(n) == <<n[2] % 256, n[2] \div 256, n[1] % 256, n[1] \div 256>>

\* one little-endian 32-bit word of d, the k-th (from 0)
WordLE(d, k) ==
    U32(d[4 * k + 3] + 256 * d[4 * k + 4], d[4 * k + 1] + 256 * d[4 * k + 2])

\* util.recv(s, '<LLLL'): the first sixteen bytes as four little-endian words
recv_LLLL(d) == <<WordLE(d, 0), WordLE(d, 1), WordLE(d, 2), WordLE(d, 3)>>

DigestLen == 32

RECURSIVE WeightedSum(_, _, _)
WeightedSum(b, i, k) ==
    IF i > Len(b) THEN 0 ELSE (i + k) * b[i] + WeightedSum(b, i + 1, k)

\* formats.hashfunc(addr).digest(): a fixed-length digest of the bytes.  A small
\* mixing function stands for the hash; nothing below relies on more than its
\* length and on its being a function of the bytes.
hashfunc(b) ==
    [k \in 1..DigestLen |-> (WeightedSum(b, 1, k) + 31 * k + Len(b)) % 256]

----------------------------------------------------------------------------
(* _get_address *)

\* hardened = 0x80000000 is bit 15 of the high half
HardenedHigh == 32768

\* hardened | value, for a 32-bit value
OrHardened(value) ==
    U32(IF (value[1] \div HardenedHigh) % 2 = 1
            THEN value[1] ELSE value[1] + HardenedHigh,
        value[2])

\* index packed into one byte only
address_string_byte_index(identity) ==
    <<identity.index[2] % 256>> \o encode_ascii(identity_to_string(identity))

\* index + identity_to_string(identity).encode('ascii')
address_string(identity) ==
    pack_L(identity.index) \o encode_ascii(identity_to_string(identity))

\* the digest words hardened, the leading 13 left as it is
address_n_13_not_hardened(digest) ==
    <<U32(0, 13)>> \o [i \in 1..4 |-> OrHardened(recv_LLLL(digest)[i])]

\* [(hardened | value) for value in [13] + list(util.recv(s, '<LLLL'))]
address_n(digest) ==
    LET n == <<U32(0, 13)>> \o recv_LLLL(digest)
    IN  [i \in 1..Len(n) |-> OrHardened(n[i])]

\* the labels whose identities are derived from, each with every index
DeriveLabels ==
    { <<"h">>,
      <<"h", ":", "2">>,
      <<"h", ":", "2", ":">>,
      <<"a", "@", "h">>,
      <<"h", "/", "p">>,
      <<"s", ":", "/", "/", "a", "@", "h", ":", "2", "/", "p">> }

\* identity.index is an unsigned 32-bit field
DeriveIndices == {U32(0, 0), U32(0, 1), U32(0, 256), U32(65535, 65535)}

DeriveInputs ==
    {[string_to_identity(identity_regexp(l)) EXCEPT !.index = n] :
        l \in DeriveLabels, n \in DeriveIndices}

IdleDerive ==
    /\ din = <<>>
    /\ daddr = <<>>
    /\ ddigest = <<>>
    /\ dpath = <<>>

StartDerive ==
    /\ din \in [1..2 -> DeriveInputs]
    /\ daddr = [k \in 1..2 |-> <<>>]
    /\ ddigest = [k \in 1..2 |-> <<>>]
    /\ dpath = [k \in 1..2 |-> <<>>]

\* _get_address(din[k])
GetAddress(k) ==
    /\ dpath[k] = <<>>
    /\ LET addr == address_string(din[k])
           digest == hashfunc(addr)
       IN  /\ daddr' = [daddr EXCEPT ![k] = addr]
           /\ ddigest' = [ddigest EXCEPT ![k] = digest]
           /\ dpath' = [dpath EXCEPT ![k] = address_n(digest)]
    /\ UNCHANGED din


----------------------------------------------------------------------------
(* Frames: util.read_frame and the layout of a challenge *)

\* struct.pack('>L', n), for the lengths the model builds
pack_BE(n) == <<0, 0, n \div 256, n % 256>>

\* a field as it is framed on the wire: its length, then its bytes
Frame(v) == pack_BE(Len(v)) \o v

Failure(kind) == [ok |-> FALSE, err |-> kind]

\* io.BytesIO.read(n) at offset pos: up to n bytes, fewer at the end, no error
io_read(d, pos, n) ==
    LET end == IF pos + n <= Len(d) THEN pos + n ELSE Len(d)
    IN  [buf |-> Slice(d, pos + 1, end), pos |-> end]

\* util.recv(conn, size): exactly size bytes, or an error when the data ends
recv(d, pos, size) ==
    IF pos + size <= Len(d)
    THEN [ok |-> TRUE, buf |-> Slice(d, pos + 1, pos + size), pos |-> pos + size]
    ELSE Failure("FormatError")

\* util.read_frame(conn): a 4-byte big-endian length, then that many bytes.
\* A length whose high half is not zero exceeds any data of the model.
read_frame(d, pos) ==
    LET head == recv(d, pos, 4)
    IN  IF ~head.ok
        THEN head
        ELSE IF head.buf[1] # 0 \/ head.buf[2] # 0
             THEN Failure("FormatError")
             ELSE recv(d, head.pos, 256 * head.buf[3] + head.buf[4])

\* the fingerprint of a key blob: the digest of the blob
fingerprint(blob) == hashfunc(blob)

\* formats.parse_pubkey(blob): the key type and the point, each a frame, and
\* nothing after them
parse_pubkey(blob) ==
    LET t == read_frame(blob, 0)
    IN  IF ~t.ok
        THEN t
        ELSE LET q == read_frame(blob, t.pos)
             IN  IF ~q.ok
                 THEN q
                 ELSE IF q.pos # Len(blob)
                      THEN Failure("FormatError")
                      ELSE [ok |-> TRUE,
                            val |-> [blob |-> blob, type |-> t.buf,
                                     point |-> q.buf,
                                     fingerprint |-> fingerprint(blob)]]

----------------------------------------------------------------------------
(* _parse_ssh_blob *)

\* the reads in the order of the nonce and user frames exchanged
ParseStepsUserFirst ==
    <<"user", "TBD", "nonce", "conn", "auth", "TBD", "key_type", "public_key">>

\* the reads _parse_ssh_blob makes, in order; "TBD" is i.read(1)
ParseSteps ==
    <<"nonce", "TBD", "user", "conn", "auth", "TBD", "key_type", "public_key">>

\* no check of what is left
LeftoverIgnored(d, pos) == TRUE

\* assert not i.read()
NothingLeft(d, pos) == io_read(d, pos, Len(d)).buf = <<>>

RECURSIVE RunSteps(_, _, _, _)
RunSteps(d, pos, k, res) ==
    IF k > Len(ParseSteps)
    THEN IF NothingLeft(d, pos)
         THEN [ok |-> TRUE, res |-> res, pos |-> pos]
         ELSE Failure("AssertionError")
    ELSE IF ParseSteps[k] = "TBD"
         THEN RunSteps(d, io_read(d, pos, 1).pos, k + 1, res)
         ELSE LET f == read_frame(d, pos)
              IN  IF ~f.ok
                  THEN f
                  ELSE IF ParseSteps[k] = "public_key"
                       THEN LET pk == parse_pubkey(f.buf)
                            IN  IF ~pk.ok
                                THEN pk
                                ELSE RunSteps(d, f.pos, k + 1,
                                              res @@ ("public_key" :> pk.val))
                       ELSE RunSteps(d, f.pos, k + 1,
                                     res @@ (ParseSteps[k] :> f.buf))

\* res = {}
EmptyRes == [k \in {} |-> <<>>]

\* _parse_ssh_blob(data): empty data gives the empty record
parse_ssh_blob(d) ==
    IF d = <<>>
    THEN [ok |-> TRUE, res |-> EmptyRes, pos |-> 0]
    ELSE RunSteps(d, 0, 1, EmptyRes)

----------------------------------------------------------------------------
(* Challenges handed to _parse_ssh_blob *)

\* "ecdsa-sha2-nistp256" and "ssh-ed25519", shortened to two bytes each
KeyTypeNist == <<110, 105>>
KeyTypeEd == <<101, 100>>

PubkeyBlob(type, point) == Frame(type) \o Frame(point)

ChallengeFields ==
    [nonce : {<<>>, <<1, 2>>},
     r1 : {0, 255},
     user : {<<97>>, <<97, 108>>},
     conn : {<<115, 115>>},
     auth : {<<112>>},
     r2 : {0, 255},
     key_type : {KeyTypeNist, KeyTypeEd},
     public_key : {PubkeyBlob(KeyTypeNist, <<4, 7, 14>>),
                   PubkeyBlob(KeyTypeEd, <<>>)}]

\* the challenge built from its fields
Challenge(f) ==
    Frame(f.nonce) \o <<f.r1>> \o Frame(f.user) \o Frame(f.conn)
        \o Frame(f.auth) \o <<f.r2>> \o Frame(f.key_type) \o Frame(f.public_key)

TrailingBytes == UNION {[1..n -> {0, 9}] : n \in 1..MaxTrailing}

IdleBlob ==
    /\ bfields = <<>>
    /\ bdamage = "idle"
    /\ data = <<>>
    /\ bres = <<>>
    /\ bpc = "idle"

StartBlob ==
    /\ bfields \in ChallengeFields
    /\ \/ bdamage = "intact" /\ data = Challenge(bfields)
       \/ bdamage = "empty" /\ data = <<>>
       \/ /\ bdamage = "truncated"
          /\ \E n \in 1..(Len(Challenge(bfields)) - 1) :
                data = Slice(Challenge(bfields), 1, n)
       \/ /\ bdamage = "trailing"
          /\ \E t \in TrailingBytes : data = Challenge(bfields) \o t
    /\ bres = <<>>
    /\ bpc = "start"

\* _parse_ssh_blob(data)
ParseBlob ==
    /\ bpc = "start"
    /\ bres' = parse_ssh_blob(data)
    /\ bpc' = "done"
    /\ UNCHANGED <<bfields, bdamage, data>>


----------------------------------------------------------------------------
(* Public keys: formats.decompress_pubkey, formats.serialize_verifying_key *)

\* the x coordinates that have a point on the curve
OnCurve == {7, 9}

\* a compressed point is <<prefix, x>>: prefix 2 for an even y, 3 for an odd y
decompress_pubkey(pubkey) ==
    IF Len(pubkey) # 2 \/ pubkey[1] \notin {2, 3} \/ pubkey[2] \notin OnCurve
    THEN Failure("FormatError")
    ELSE [ok |-> TRUE,
          vk |-> [x |-> pubkey[2], y |-> 2 * pubkey[2] + (pubkey[1] - 2)]]

\* the key type and the blob: the key type and the uncompressed point, framed
serialize_verifying_key(vk) ==
    [key_type |-> KeyTypeNist,
     blob |-> PubkeyBlob(KeyTypeNist, <<4, vk.x, vk.y>>)]

----------------------------------------------------------------------------
(* Client.sign_ssh_challenge *)

SignatureLen == 65

NoValue == <<"None">>
NoError == "none"

\* self.get_identity(label): the parsed label with proto set to 'ssh'
get_identity(lbl) ==
    LET m == identity_regexp(lbl)
    IN  IF ~m.ok
        THEN Failure("AttributeError")
        ELSE [ok |-> TRUE,
              identity |-> [string_to_identity(m) EXCEPT !.proto = <<"s", "s", "h">>]]

\* the device is asked whatever the parser made of the blob
prepare_without_parsing(lbl, blob) ==
    LET id == get_identity(lbl)
    IN  IF ~id.ok
        THEN id
        ELSE [ok |-> TRUE, identity |-> id.identity, msg |-> EmptyRes]

\* what sign_ssh_challenge does before it asks the device: get_identity,
\* _parse_ssh_blob, and the log line that reads msg['user']
prepare(lbl, blob) ==
    LET id == get_identity(lbl)
    IN  IF ~id.ok
        THEN id
        ELSE LET parsed == parse_ssh_blob(blob)
             IN  IF ~parsed.ok
                 THEN parsed
                 ELSE IF "user" \notin DOMAIN parsed.res
                      THEN Failure("KeyError")
                      ELSE [ok |-> TRUE, identity |-> id.identity,
                            msg |-> parsed.res]

\* the signature returned whole
finalize_prefix_kept(result, msg) ==
    LET vk == decompress_pubkey(result.public_key)
    IN  IF ~vk.ok
        THEN vk
        ELSE LET ser == serialize_verifying_key(vk.vk)
             IN  IF /\ ser.blob = msg.public_key.blob
                    /\ ser.key_type = msg.key_type
                    /\ Len(result.signature) = SignatureLen
                    /\ SliceTo(result.signature, 1) = <<0>>
                 THEN [ok |-> TRUE, value |-> result.signature]
                 ELSE Failure("AssertionError")

\* the length of the signature not checked
finalize_length_unchecked(result, msg) ==
    LET vk == decompress_pubkey(result.public_key)
    IN  IF ~vk.ok
        THEN vk
        ELSE LET ser == serialize_verifying_key(vk.vk)
             IN  IF /\ ser.blob = msg.public_key.blob
                    /\ ser.key_type = msg.key_type
                    /\ SliceTo(result.signature, 1) = <<0>>
                 THEN [ok |-> TRUE, value |-> SliceFrom(result.signature, 1)]
                 ELSE Failure("AssertionError")

\* the key type not checked
finalize_key_type_unchecked(result, msg) ==
    LET vk == decompress_pubkey(result.public_key)
    IN  IF ~vk.ok
        THEN vk
        ELSE LET ser == serialize_verifying_key(vk.vk)
             IN  IF /\ ser.blob = msg.public_key.blob
                    /\ Len(result.signature) = SignatureLen
                    /\ SliceTo(result.signature, 1) = <<0>>
                 THEN [ok |-> TRUE, value |-> SliceFrom(result.signature, 1)]
                 ELSE Failure("AssertionError")

\* what sign_ssh_challenge does with the device's result: the key is
\* decompressed and serialized, the four asserts are made in the order blob,
\* key type, length, first byte, and result.signature[1:] is returned
finalize(result, msg) ==
    LET vk == decompress_pubkey(result.public_key)
    IN  IF ~vk.ok
        THEN vk
        ELSE LET ser == serialize_verifying_key(vk.vk)
             IN  IF ser.blob # msg.public_key.blob
                 THEN Failure("AssertionError")
                 ELSE IF ser.key_type # msg.key_type
                 THEN Failure("AssertionError")
                 ELSE IF Len(result.signature) # SignatureLen
                 THEN Failure("AssertionError")
                 ELSE IF SliceTo(result.signature, 1) # <<0>>
                 THEN Failure("AssertionError")
                 ELSE [ok |-> TRUE,
                       value |-> SliceFrom(result.signature, 1)]

\* the fields of the challenges signed: the key asked for is <<2, 7>>
SignFields(kt) ==
    [nonce |-> <<1, 2>>, r1 |-> 0, user |-> <<97, 108>>, conn |-> <<115, 115>>,
     auth |-> <<112>>, r2 |-> 0, key_type |-> kt,
     public_key |-> PubkeyBlob(KeyTypeNist, <<4, 7, 14>>)]

SignBlobs ==
    { Challenge(SignFields(KeyTypeNist)),
      Challenge(SignFields(KeyTypeEd)),
      Challenge(SignFields(KeyTypeNist)) \o <<0>>,
      Slice(Challenge(SignFields(KeyTypeNist)), 1, 20),
      <<>> }

SignLabels == { <<"h">>, <<"a", "@", "h", ":", "2">>, <<"h", NL, "h">> }

\* the compressed keys a device may return: the key asked for, the same x
\* with the other y, another key, an unknown prefix, an x not on the curve
DeviceKeys == { <<2, 7>>, <<3, 7>>, <<2, 9>>, <<4, 7>>, <<2, 8>> }

SigLens == {0, 1} \cup ((SignatureLen - MaxSigSlack)..(SignatureLen + MaxSigSlack))

\* a signature of n bytes: its first byte, then bytes that depend on fill
Signature(n, first, fill) ==
    [i \in 1..n |-> IF i = 1 THEN first ELSE (fill + 3 * i) % 256]

DeviceSignatures ==
    {Signature(n, first, fill) : n \in SigLens, first \in {0, 1, 128},
                                 fill \in {0, 100}}

NoResult == [public_key |-> <<>>, signature |-> <<>>]

IdleSign ==
    /\ slabel = <<>>
    /\ sblob = <<>>
    /\ spc = "idle"
    /\ sident = NoIdentity
    /\ smsg = EmptyRes
    /\ devCalls = 0
    /\ sresult = NoResult
    /\ sret = NoValue
    /\ serr = NoError

StartSign ==
    /\ slabel \in SignLabels
    /\ sblob \in SignBlobs
    /\ spc = "start"
    /\ sident = NoIdentity
    /\ smsg = EmptyRes
    /\ devCalls = 0
    /\ sresult = NoResult
    /\ sret = NoValue
    /\ serr = NoError

\* lines 63-67: the identity, the parsed challenge, the log line
Prepare ==
    /\ spc = "start"
    /\ LET r == prepare(slabel, sblob)
       IN  IF r.ok
           THEN /\ sident' = r.identity
                /\ smsg' = r.msg
                /\ spc' = "prepared"
                /\ UNCHANGED serr
           ELSE /\ spc' = "failed"
                /\ serr' = r.err
                /\ UNCHANGED <<sident, smsg>>
    /\ UNCHANGED <<slabel, sblob, devCalls, sresult, sret>>

\* self.client.sign_identity(...) is called; the call blocks
RequestSignature ==
    /\ spc = "prepared"
    /\ devCalls' = devCalls + 1
    /\ spc' = "waiting"
    /\ UNCHANGED <<slabel, sblob, sident, smsg, sresult, sret, serr>>

\* sign_identity returns a public key and a signature
DeviceReturns ==
    /\ spc = "waiting"
    /\ \E pk \in DeviceKeys, sig \in DeviceSignatures :
            sresult' = [public_key |-> pk, signature |-> sig]
    /\ spc' = "replied"
    /\ UNCHANGED <<slabel, sblob, sident, smsg, devCalls, sret, serr>>

\* sign_identity raises (the device refuses, or the transport fails)
DeviceRaises ==
    /\ spc = "waiting"
    /\ spc' = "failed"
    /\ serr' = "DeviceError"
    /\ UNCHANGED <<slabel, sblob, sident, smsg, devCalls, sresult, sret>>

\* lines 75-83
Finalize ==
    /\ spc = "replied"
    /\ LET r == finalize(sresult, smsg)
       IN  IF r.ok
           THEN /\ sret' = r.value
                /\ spc' = "returned"
                /\ UNCHANGED serr
           ELSE /\ spc' = "failed"
                /\ serr' = r.err
                /\ UNCHANGED sret
    /\ UNCHANGED <<slabel, sblob, sident, smsg, devCalls, sresult>>

----------------------------------------------------------------------------
(* The round trip label -> identity -> canonical label -> identity *)

IdleIdentity ==
    /\ label = <<>>
    /\ groups = NoMatch
    /\ ident = NoIdentity
    /\ canon = <<>>
    /\ ident2 = NoIdentity
    /\ ipc = "idle"

StartIdentity ==
    /\ label \in Labels
    /\ groups = NoMatch
    /\ ident = NoIdentity
    /\ canon = <<>>
    /\ ident2 = NoIdentity
    /\ ipc = "start"

\* string_to_identity(label); when the label does not match, m is None and
\* m.groupdict() raises AttributeError
ParseLabel ==
    /\ ipc = "start"
    /\ LET m == identity_regexp(label)
       IN  IF m.ok
           THEN /\ groups' = m
                /\ ident' = string_to_identity(m)
                /\ ipc' = "parsed"
           ELSE /\ ipc' = "AttributeError"
                /\ UNCHANGED <<groups, ident>>
    /\ UNCHANGED <<label, canon, ident2>>

\* identity_to_string(identity)
Canonize ==
    /\ ipc = "parsed"
    /\ canon' = identity_to_string(ident)
    /\ ipc' = "canonized"
    /\ UNCHANGED <<label, groups, ident, ident2>>

\* string_to_identity(canonical label)
ParseCanon ==
    /\ ipc = "canonized"
    /\ LET m == identity_regexp(canon)
       IN  IF m.ok
           THEN /\ ident2' = string_to_identity(m)
                /\ ipc' = "reparsed"
           ELSE /\ ipc' = "AttributeError"
                /\ UNCHANGED ident2
    /\ UNCHANGED <<label, groups, ident, canon>>

NextIdentity ==
    \/ ParseLabel /\ UNCHANGED <<deriveVars, blobVars, signVars>>
    \/ Canonize /\ UNCHANGED <<deriveVars, blobVars, signVars>>
    \/ ParseCanon /\ UNCHANGED <<deriveVars, blobVars, signVars>>

InitIdentity == StartIdentity /\ IdleDerive /\ IdleBlob /\ IdleSign

SpecIdentity == InitIdentity /\ [][NextIdentity]_vars

----------------------------------------------------------------------------
(* Claims about the identity grammar *)

\* a group that took part in the match and matched the empty string
MatchedEmpty(g) == g.m /\ g.v = <<>>

EndsWithNewline(s) == Len(s) > 0 /\ s[Len(s)] = NL

\* C4: canonicalization is idempotent: parsing the canonical string of a parsed
\* label gives back the identity the label parsed to, field for field.
C4_Idempotent ==
    ipc = "reparsed" => ident2 = ident

\* C5, as claimed: the canonical string of every accepted label is the label
\* itself, character for character.
C5_RoundTripExact ==
    ipc \in {"canonized", "reparsed"} => canon = label

\* C5, amended: the canonical string of an accepted label is the label itself
\* exactly when the match captured no empty proto, user or port and the label
\* does not end with a newline; in every other case the two differ.
C5_RoundTripExactIffNothingEmpty ==
    ipc \in {"canonized", "reparsed"} =>
        (canon = label <=>
            /\ ~MatchedEmpty(groups.proto)
            /\ ~MatchedEmpty(groups.user)
            /\ ~MatchedEmpty(groups.port)
            /\ ~EndsWithNewline(label))

\* a label with a user and a port went through the round trip unchanged
C5_Witness ==
    /\ ipc = "canonized"
    /\ canon = label
    /\ ident.user # <<>>
    /\ ident.port # <<>>

----------------------------------------------------------------------------
(* Derivation of address paths *)

NextDerive ==
    \E k \in 1..2 : GetAddress(k) /\ UNCHANGED <<identityVars, blobVars, signVars>>

InitDerive == IdleIdentity /\ StartDerive /\ IdleBlob /\ IdleSign

SpecDerive == InitDerive /\ [][NextDerive]_vars

Derived(k) == dpath # <<>> /\ dpath[k] # <<>>

\* C6: every derived path has exactly 5 elements, each an unsigned 32-bit
\* value with its top bit set; the first is 0x8000000D (<<32768, 13>>); the address string is
\* the index as 4 little-endian bytes followed by the ASCII canonical string,
\* and the other four elements are the first four little-endian 32-bit words
\* of its digest, each with the top bit forced.
C6_PathShape ==
    \A k \in 1..2 : Derived(k) =>
        LET cs == identity_to_string(din[k])
        IN  /\ Len(dpath[k]) = 5
            /\ \A i \in 1..5 :
                    /\ IsU32(dpath[k][i])
                    /\ dpath[k][i][1] \div 32768 = 1
            /\ dpath[k][1] = <<32768, 13>>
            /\ Len(daddr[k]) = 4 + Len(cs)
            /\ daddr[k][1] + 256 * daddr[k][2] = din[k].index[2]
            /\ daddr[k][3] + 256 * daddr[k][4] = din[k].index[1]
            /\ \A i \in 1..Len(cs) : daddr[k][4 + i] = Ord(cs[i])
            /\ ddigest[k] = hashfunc(daddr[k])
            /\ \A w \in 0..3 :
                    /\ dpath[k][w + 2][2]
                        = ddigest[k][4 * w + 1] + 256 * ddigest[k][4 * w + 2]
                    /\ dpath[k][w + 2][1] % 32768
                        = (ddigest[k][4 * w + 3] + 256 * ddigest[k][4 * w + 4])
                            % 32768

\* a path was derived for an index that fills more than one byte, from a
\* digest whose first word has its top bit clear
C6_Witness ==
    /\ Derived(1)
    /\ din[1].index = <<0, 256>>
    /\ ddigest[1][4] < 128
    /\ dpath[1][2][1] >= 32768

----------------------------------------------------------------------------
(* Parsing of challenges *)

NextBlob == ParseBlob /\ UNCHANGED <<identityVars, deriveVars, signVars>>

InitBlob == IdleIdentity /\ IdleDerive /\ StartBlob /\ IdleSign

SpecBlob == InitBlob /\ [][NextBlob]_vars

\* the length of a frame holding v
FrameLen(v) == 4 + Len(v)

\* C8: a non-empty input is accepted only if its fields take up exactly its
\* length; an input with bytes after the public-key frame, and an input cut
\* short anywhere before its end, is rejected and yields no record.
C8_ExactLength ==
    bpc = "done" =>
        /\ (bdamage \in {"truncated", "trailing"}) =>
                (~bres.ok /\ "res" \notin DOMAIN bres)
        /\ (bres.ok /\ data # <<>>) =>
                Len(data) = FrameLen(bres.res.nonce) + 1
                    + FrameLen(bres.res.user) + FrameLen(bres.res.conn)
                    + FrameLen(bres.res.auth) + 1
                    + FrameLen(bres.res.key_type)
                    + FrameLen(bres.res.public_key.blob)

\* an input that ends just before its first reserved byte was rejected
C8_Witness ==
    /\ bpc = "done"
    /\ bdamage = "truncated"
    /\ Len(data) = FrameLen(bfields.nonce)
    /\ ~bres.ok

\* C9: a well-formed challenge parses to a record whose nonce, user, conn,
\* auth, key_type and public-key blob are exactly the framed values, whatever
\* the two reserved bytes are, and no byte is left over.
C9_FieldsParsed ==
    (bpc = "done" /\ bdamage = "intact") =>
        /\ bres.ok
        /\ DOMAIN bres.res
            = {"nonce", "user", "conn", "auth", "key_type", "public_key"}
        /\ bres.res.nonce = bfields.nonce
        /\ bres.res.user = bfields.user
        /\ bres.res.conn = bfields.conn
        /\ bres.res.auth = bfields.auth
        /\ bres.res.key_type = bfields.key_type
        /\ bres.res.public_key.blob = bfields.public_key
        /\ bres.pos = Len(data)

\* a challenge with a two-byte nonce and reserved bytes 255 and 0 was parsed
C9_Witness ==
    /\ bpc = "done"
    /\ bdamage = "intact"
    /\ bfields.nonce = <<1, 2>>
    /\ bfields.r1 = 255 /\ bfields.r2 = 0
    /\ bres.ok
    /\ bres.res.nonce = <<1, 2>>

----------------------------------------------------------------------------
(* Signing *)

Next ==
    \/ Prepare /\ UNCHANGED <<identityVars, deriveVars, blobVars>>
    \/ RequestSignature /\ UNCHANGED <<identityVars, deriveVars, blobVars>>
    \/ DeviceReturns /\ UNCHANGED <<identityVars, deriveVars, blobVars>>
    \/ DeviceRaises /\ UNCHANGED <<identityVars, deriveVars, blobVars>>
    \/ Finalize /\ UNCHANGED <<identityVars, deriveVars, blobVars>>

Init == IdleIdentity /\ IdleDerive /\ IdleBlob /\ StartSign

Spec == Init /\ [][Next]_vars

\* the checks of the device's result have been made
Finalized == spc \in {"returned", "failed"} /\ sresult # NoResult

Returned == spc = "returned"

\* the raw signature has the wrong length or the wrong first byte
Malformed(sig) == Len(sig) # 65 \/ sig[1] # 0

\* the key type and blob serialized from the key the device returned
ReturnedKey == serialize_verifying_key(decompress_pubkey(sresult.public_key).vk)

\* C1: when the call returns, the raw signature had 65 bytes and first byte 0,
\* the blob and key type serialized from the device's key are those of the
\* challenge, and the value returned is bytes 1..65 of the raw signature:
\* 64 bytes, the first byte removed.
C1_ReturnsBareSignature ==
    Returned =>
        /\ Len(sresult.signature) = 65
        /\ sresult.signature[1] = 0
        /\ decompress_pubkey(sresult.public_key).ok
        /\ ReturnedKey.blob = smsg.public_key.blob
        /\ ReturnedKey.key_type = smsg.key_type
        /\ Len(sret) = 64
        /\ \A i \in 1..64 : sret[i] = sresult.signature[i + 1]

\* a call returned a signature
C1_Witness ==
    /\ Returned
    /\ Len(sret) = 64
    /\ sret[64] = sresult.signature[65]

Mismatch ==
    /\ decompress_pubkey(sresult.public_key).ok
    /\ \/ ReturnedKey.blob # smsg.public_key.blob
       \/ ReturnedKey.key_type # smsg.key_type

C10_OneRequestAfterParse ==
    /\ devCalls <= 1
    /\ devCalls = 1 =>
            (parse_ssh_blob(sblob).ok /\ smsg = parse_ssh_blob(sblob).res
                /\ sblob # <<>>)
    /\ (spc # "start" /\ ~parse_ssh_blob(sblob).ok) =>
            (spc = "failed" /\ devCalls = 0)
    /\ (Finalized /\ (Malformed(sresult.signature) \/ Mismatch)) =>
            (spc = "failed" /\ devCalls = 1 /\ sret = NoValue)
    /\ spc = "failed" => sret = NoValue

\* a call failed on a signature with a bad first byte, after one request
C10_Witness ==
    /\ spc = "failed"
    /\ devCalls = 1
    /\ serr = "AssertionError"
    /\ Len(sresult.signature) = 65
    /\ sresult.signature[1] = 128

=============================================================================
